---------------------------- MODULE Spec2Model ----------------------------
(***************************************************************************)
(* State-machine model of server.py (FastMCP SEC scraper): the XBRL        *)
(* document cache (_canonical_xbrl_url, _fetch_xbrl_json,                  *)
(* _cached_xbrl_summary), the tag-resolution tools                         *)
(* (extract_metric_from_section, get_metric_smart, get_financial_snapshot, *)
(* preload_xbrl_summary), the identifier-name resolver (resolve_cik_name,  *)
(* map_cik_to_name) and the holdings aggregator                            *)
(* (get_institutional_holders).                                            *)
(*                                                                         *)
(* Strings that the code takes apart character by character (URLs) are     *)
(* sequences of one-character strings; strings that are only padded,       *)
(* concatenated or compared (identifiers, names, tags) are TLA+ strings.   *)
(***************************************************************************)
EXTENDS Integers, Sequences, FiniteSets, TLC

VARIABLES
    \* ---- XBRL document cache and tag-resolution tools
    remote,        \* canonical URL -> the document the remote API converts it to
    jsonCache,     \* lru_cache of _fetch_xbrl_json: entries, least recently used first
    summaryCache,  \* lru_cache of _cached_xbrl_summary
    nFetch,        \* canonical URL -> remote xbrl-to-json requests sent so far
    nOk,           \* canonical URL -> of those, the ones that succeeded
    last,          \* the most recent tool call: its arguments and what it returned
    \* ---- concurrent callers of _fetch_xbrl_json
    pc,            \* caller -> "idle" | "fetching" | "storing"
    arg,           \* caller -> the reference it is calling _fetch_xbrl_json with
    got,           \* caller -> the response its remote request produced
    started,       \* caller -> calls it has started
    \* ---- canonicalisation as a pure function
    refA, refB,    \* two references, by components (base, query, fragment)
    keyA, keyB,    \* their canonical keys once computed (<<>>: not yet)
    keyAA,         \* the canonical key of keyA once computed
    \* ---- identifier names and institutional holdings
    batch,         \* the filings the 13F endpoint returns
    nameCache,     \* lru_cache of resolve_cik_name
    nameCalls,     \* identifier -> mapping requests sent so far
    hLast,         \* the most recent resolver / aggregator call
    \* ---- insider transactions
    trades,        \* the entries the insider-trading endpoint returns
    tLast          \* the most recent get_insider_trades call

xvars == <<remote, jsonCache, summaryCache, nFetch, nOk, last>>
tvars == <<pc, arg, got, started>>
cvars == <<refA, refB, keyA, keyB, keyAA>>
hvars == <<batch, nameCache, nameCalls, hLast>>
ivars == <<trades, tLast>>
vars  == <<xvars, tvars, cvars, hvars, ivars>>

-----------------------------------------------------------------------------
(* Bounds of the model *)

\* longest base (scheme, host and path) of a reference in SpecCanon
MaxBaseLen == 2
\* remote xbrl-to-json requests per canonical URL in one run
MaxFetch == 2
\* calls of _fetch_xbrl_json each concurrent caller makes
MaxCalls == 2
\* filings in one answer of the 13F endpoint
MaxFilings == 2
\* entries in one answer of the insider-trading endpoint
MaxEntries == 1

-----------------------------------------------------------------------------
(* Character strings *)

\* (lower, upper) of each cased letter that occurs
LetterPairs ==
    { <<"a", "A">>, <<"b", "B">>, <<"x", "X">>, <<"m", "M">>, <<"l", "L">> }

\* str.lower() on one character
LowerChar(c) ==
    IF \E p \in LetterPairs : p[2] = c
    THEN (CHOOSE p \in LetterPairs : p[2] = c)[1]
    ELSE c

\* str.lower()
Lower(s) == [i \in 1..Len(s) |-> LowerChar(s[i])]

\* s.split(c)[0]: the part of s before the first c, all of s when there is none
SplitHead(s, c) ==
    IF \E i \in 1..Len(s) : s[i] = c
    THEN LET i == CHOOSE j \in 1..Len(s) :
                      s[j] = c /\ \A k \in 1..(j - 1) : s[k] # c
         IN  SubSeq(s, 1, i - 1)
    ELSE s

\* s.endswith(suffix)
EndsWith(s, suffix) ==
    /\ Len(s) >= Len(suffix)
    /\ SubSeq(s, Len(s) - Len(suffix) + 1, Len(s)) = suffix

DotXml == <<".", "x", "m", "l">>

\* mutant: only the query string is stripped
CanonKeepsFragment(url) == Lower(SplitHead(url, "?"))

\* mutant: the case is kept
CanonKeepsCase(url) == SplitHead(SplitHead(url, "?"), "#")

\* url.split("?")[0].split("#")[0].lower()
_canonical_xbrl_url(url) == Lower(SplitHead(SplitHead(url, "?"), "#"))


-----------------------------------------------------------------------------
(* functools.lru_cache: a bounded cache, least recently used entry first *)

CacheHas(c, k) == \E i \in 1..Len(c) : c[i].key = k

CacheGet(c, k) == (CHOOSE e \in {c[i] : i \in 1..Len(c)} : e.key = k).val

\* a hit moves the entry to the most-recently-used end
CacheTouch(c, k) ==
    SelectSeq(c, LAMBDA e : e.key # k) \o SelectSeq(c, LAMBDA e : e.key = k)

\* a miss that returned stores the result, evicting the oldest entry when full
CachePut(c, k, v, maxsize) ==
    LET d == Append(c, [key |-> k, val |-> v])
    IN  IF Len(d) > maxsize THEN Tail(d) ELSE d

CacheKeys(c) == {c[i].key : i \in 1..Len(c)}

\* @lru_cache(maxsize=128) of _fetch_xbrl_json and _cached_xbrl_summary
XbrlMaxSize == 128
\* @lru_cache(maxsize=2048) of resolve_cik_name
NameMaxSize == 2048

-----------------------------------------------------------------------------
(* Converted XBRL documents *)

\* Python's None is the empty sequence; a present value v is <<v>>
None == <<>>

Tags == {"Assets", "Revenues"}
SectionNames == {"BalanceSheets", "StatementsOfOperations"}

\* a fact's value: null, or a number in tenths (15 is 1.5), so that int() has
\* a fractional part to drop
Values == {None, <<15>>, <<27>>}

\* the values each tag takes in the documents of the model
ValuesOf(tag) == IF tag = "Assets" THEN Values ELSE {<<27>>}

\* the first fact's period.endDate, the same in every fact of the model
EndDate == "2024-12-31"

\* int(value): truncation toward zero
IntOf(v) == IF v >= 0 THEN v \div 10 ELSE -((-v) \div 10)

\* a section's content: tag -> value of its first fact, for the tags it has
SectionContents ==
    UNION { {f \in [ts -> Values] : \A t \in ts : f[t] \in ValuesOf(t)} :
            ts \in SUBSET Tags }

Sections == [name : SectionNames, facts : SectionContents]

\* a document is its sections in stored order (a dict keeps insertion order);
\* section names are the keys of a dict, so no name occurs twice
Documents ==
    {<<>>}
    \cup { <<s>> : s \in Sections }
    \cup { d \in Sections \X Sections : d[1].name # d[2].name }

\* section in data
HasSection(data, section) == \E i \in 1..Len(data) : data[i].name = section

\* data[section]
SectionData(data, section) ==
    (CHOOSE s \in {data[i] : i \in 1..Len(data)} : s.name = section).facts

\* data.get(section, {})
SectionDataOrEmpty(data, section) ==
    IF HasSection(data, section) THEN SectionData(data, section) ELSE <<>>

\* data.keys()
SectionKeys(data) == [i \in 1..Len(data) |-> data[i].name]

-----------------------------------------------------------------------------
(* The document cache *)

\* mutant: a failed request leaves an (empty) entry behind
FetchCachesFailure(cache, xbrl_url, ok) ==
    IF CacheHas(cache, xbrl_url)
    THEN [cache |-> CacheTouch(cache, xbrl_url), raised |-> FALSE,
          data |-> CacheGet(cache, xbrl_url), sent |-> <<>>]
    ELSE LET url == _canonical_xbrl_url(xbrl_url)
         IN  [cache |-> CachePut(cache, xbrl_url,
                                 IF ok THEN remote[url] ELSE <<>>, XbrlMaxSize),
              raised |-> ~ok,
              data |-> IF ok THEN remote[url] ELSE <<>>,
              sent |-> <<url>>]

\* _fetch_xbrl_json under @lru_cache: the cache is keyed by the argument as
\* passed; the body canonicalises it only for the request.  ok is whether the
\* request, if one is sent, succeeds (raise_for_status and resp.json() pass).
\* Returns the cache afterwards, whether the call raised, the data returned
\* and the requests sent.
_fetch_xbrl_json(cache, xbrl_url, ok) ==
    IF CacheHas(cache, xbrl_url)
    THEN [cache |-> CacheTouch(cache, xbrl_url), raised |-> FALSE,
          data |-> CacheGet(cache, xbrl_url), sent |-> <<>>]
    ELSE LET url == _canonical_xbrl_url(xbrl_url)
         IN  IF ok
             THEN [cache |-> CachePut(cache, xbrl_url, remote[url], XbrlMaxSize),
                   raised |-> FALSE, data |-> remote[url], sent |-> <<url>>]
             ELSE [cache |-> cache, raised |-> TRUE, data |-> <<>>,
                   sent |-> <<url>>]

\* how a call got its document
LoadOf(f) ==
    IF f.sent = <<>> THEN "hit" ELSE IF f.raised THEN "failed" ELSE "fetched"

RECURSIVE JoinNames(_)
\* ', '.join(names)
JoinNames(names) ==
    IF names = <<>> THEN ""
    ELSE IF Len(names) = 1 THEN names[1]
    ELSE names[1] \o ", " \o JoinNames(Tail(names))

\* the [:400] of the summary
SummaryLimit == 400

\* f"Loaded XBRL. Sections available: {', '.join(data.keys())[:400]}"
SummaryOf(data) ==
    LET joined == JoinNames(SectionKeys(data))
    IN  "Loaded XBRL. Sections available: "
        \o (IF Len(joined) <= SummaryLimit THEN joined
            ELSE SubSeq(joined, 1, SummaryLimit))

\* mutant: the summary asks the remote API itself, past both caches
SummaryRefetches(scache, jcache, xbrl_url, ok) ==
    LET url == _canonical_xbrl_url(xbrl_url)
    IN  [scache |-> scache, jcache |-> jcache, raised |-> ~ok,
         text |-> IF ok THEN SummaryOf(remote[url]) ELSE "",
         sent |-> <<url>>, load |-> IF ok THEN "fetched" ELSE "failed"]

\* _cached_xbrl_summary under @lru_cache
_cached_xbrl_summary(scache, jcache, xbrl_url, ok) ==
    IF CacheHas(scache, xbrl_url)
    THEN [scache |-> CacheTouch(scache, xbrl_url), jcache |-> jcache,
          raised |-> FALSE, text |-> CacheGet(scache, xbrl_url),
          sent |-> <<>>, load |-> "none"]
    ELSE LET f == _fetch_xbrl_json(jcache, xbrl_url, ok)
         IN  IF f.raised
             THEN [scache |-> scache, jcache |-> f.cache, raised |-> TRUE,
                   text |-> "", sent |-> f.sent, load |-> LoadOf(f)]
             ELSE [scache |-> CachePut(scache, xbrl_url, SummaryOf(f.data),
                                       XbrlMaxSize),
                   jcache |-> f.cache, raised |-> FALSE,
                   text |-> SummaryOf(f.data), sent |-> f.sent,
                   load |-> LoadOf(f)]

-----------------------------------------------------------------------------
(* Tag resolution *)

\* what a tool hands back: a successful result, an explanatory message, or an
\* exception that leaves the tool uncaught
Ok(detail) == [kind |-> "ok", what |-> "", detail |-> detail]
Msg(what, detail) == [kind |-> "msg", what |-> what, detail |-> detail]
Fault(exc) == [kind |-> "fault", what |-> exc, detail |-> <<>>]

\* f"{tag} ({section}) - {period}: ${int(value):,}"
Metric(tag, section, period, value) ==
    [tag |-> tag, section |-> section, period |-> period, amount |-> IntOf(value)]

\* a tool's effect: the JSON cache afterwards, the requests sent, how the
\* document was obtained, and the return value
ToolResult(cache, sent, load, ret) ==
    [cache |-> cache, sent |-> sent, load |-> load, ret |-> ret]

\* for section_name, section_data in data.items(): if tag in section_data: ...
\* the first section, in stored order, that has the tag: <<[section, value]>>,
\* or <<>> (None) when no section has it
FirstSectionWith(data, tag) ==
    LET has == {i \in 1..Len(data) : tag \in DOMAIN data[i].facts}
    IN  IF has = {} THEN <<>>
        ELSE LET i == CHOOSE j \in has : \A k \in has : j <= k
             IN  <<[section |-> data[i].name, value |-> data[i].facts[tag]]>>

_lookup_tag_any_section(data, tag) == FirstSectionWith(data, tag)

\* list(section_data.keys())[:10]
SampleLimit == 10
SampleTags(section_data) ==
    IF Cardinality(DOMAIN section_data) <= SampleLimit
    THEN DOMAIN section_data
    ELSE CHOOSE ts \in SUBSET DOMAIN section_data : Cardinality(ts) = SampleLimit

extract_metric_from_section(cache, xbrl_url, section, tag, ok) ==
    IF ~EndsWith(Lower(xbrl_url), DotXml)
    THEN ToolResult(cache, <<>>, "none", Msg("MalformedInput", <<>>))
    ELSE
    LET f == _fetch_xbrl_json(cache, xbrl_url, ok)
        data == f.data
        done(ret) == ToolResult(f.cache, f.sent, LoadOf(f), ret)
    IN  IF f.raised THEN done(Msg("FetchFailed", <<>>))
        ELSE IF ~HasSection(data, section)
        THEN done(Msg("SectionNotFound", section))
        ELSE IF tag \notin DOMAIN SectionData(data, section)
        THEN done(Msg("TagNotFound", SampleTags(SectionData(data, section))))
        ELSE LET value == SectionData(data, section)[tag]
             IN  IF value = None
                 THEN done(Msg("NoValue", tag))
                 ELSE done(Ok(Metric(tag, section, EndDate, value[1])))

\* section_hint or "StatementsOfOperations"
DefaultSection == "StatementsOfOperations"

\* mutant: the full scan comes before the hinted section
SmartScansFirst(cache, xbrl_url, tag, section_hint, ok) ==
    LET f == _fetch_xbrl_json(cache, xbrl_url, ok)
        found == _lookup_tag_any_section(f.data, tag)
    IN  IF f.raised
        THEN ToolResult(f.cache, f.sent, LoadOf(f), Msg("FetchFailed", <<>>))
        ELSE IF found # <<>> /\ found[1].value # None
        THEN ToolResult(f.cache, f.sent, LoadOf(f),
                        Ok(Metric(tag, found[1].section, EndDate, found[1].value[1])))
        ELSE ToolResult(f.cache, f.sent, LoadOf(f), Msg("TagNotFound", {}))

\* section_hint is "" when the caller gives none: the code tests it only for
\* truth, and None and "" are both false.  int(None) raises TypeError, which
\* nothing in the tool catches.
get_metric_smart(cache, xbrl_url, tag, section_hint, ok) ==
    IF ~EndsWith(Lower(xbrl_url), DotXml)
    THEN ToolResult(cache, <<>>, "none", Msg("MalformedInput", <<>>))
    ELSE
    LET f == _fetch_xbrl_json(cache, xbrl_url, ok)
        data == f.data
        done(ret) == ToolResult(f.cache, f.sent, LoadOf(f), ret)
        found == _lookup_tag_any_section(data, tag)
    IN  IF f.raised THEN done(Msg("FetchFailed", <<>>))
        ELSE IF /\ section_hint # ""
                /\ HasSection(data, section_hint)
                /\ tag \in DOMAIN SectionData(data, section_hint)
        THEN LET value == SectionData(data, section_hint)[tag]
             IN  IF value = None
                 THEN done(Fault("TypeError"))
                 ELSE done(Ok(Metric(tag, section_hint, EndDate, value[1])))
        ELSE IF found # <<>>
        THEN IF found[1].value = None
             THEN done(Fault("TypeError"))
             ELSE done(Ok(Metric(tag, found[1].section, EndDate, found[1].value[1])))
        ELSE LET e == extract_metric_from_section(
                          f.cache, xbrl_url,
                          IF section_hint # "" THEN section_hint ELSE DefaultSection,
                          tag, ok)
             IN  ToolResult(e.cache, f.sent \o e.sent, LoadOf(f), e.ret)

\* snapshot.setdefault(section, {})[tag] = value
SetDefaultPut(snapshot, section, tag, value) ==
    LET old == IF section \in DOMAIN snapshot THEN snapshot[section] ELSE <<>>
        new == [t \in DOMAIN old \cup {tag} |-> IF t = tag THEN value ELSE old[t]]
    IN  [b \in DOMAIN snapshot \cup {section} |->
            IF b = section THEN new ELSE snapshot[b]]

\* mutant: a tag that resolves nowhere is left out of the result
SnapshotDropsUnresolved(data, wanted_section, tag, snapshot) ==
    LET found == FirstSectionWith(data, tag)
    IN  IF found = <<>> THEN snapshot
        ELSE SetDefaultPut(snapshot, found[1].section, tag, found[1].value)

\* mutant: the result is always filed under the requested section
SnapshotFilesUnderWanted(data, wanted_section, tag, snapshot) ==
    LET found == FirstSectionWith(data, tag)
    IN  SetDefaultPut(snapshot, wanted_section, tag,
                      IF found = <<>> THEN None ELSE found[1].value)

\* one turn of the loop body of get_financial_snapshot
SnapshotStep(data, wanted_section, tag, snapshot) ==
    LET sec_data == SectionDataOrEmpty(data, wanted_section)
        value1 == IF tag \in DOMAIN sec_data THEN sec_data[tag] ELSE None
        scan == IF value1 = None THEN FirstSectionWith(data, tag) ELSE <<>>
        value == IF scan # <<>> THEN scan[1].value ELSE value1
        actual_section == IF scan # <<>> THEN scan[1].section ELSE wanted_section
    IN  SetDefaultPut(snapshot, actual_section, tag, value)

RECURSIVE Requests(_)
\* the (wanted_section, tag) pairs in the order the two loops visit them;
\* metrics is the dict as its items in order: <<[section, tags], ...>>
Requests(metrics) ==
    IF metrics = <<>> THEN <<>>
    ELSE [i \in 1..Len(metrics[1].tags) |->
             [section |-> metrics[1].section, tag |-> metrics[1].tags[i]]]
         \o Requests(Tail(metrics))

RECURSIVE SnapshotLoop(_, _, _)
SnapshotLoop(data, reqs, snapshot) ==
    IF reqs = <<>> THEN snapshot
    ELSE SnapshotLoop(data, Tail(reqs),
                      SnapshotStep(data, reqs[1].section, reqs[1].tag, snapshot))

get_financial_snapshot(cache, xbrl_url, metrics, ok) ==
    LET f == _fetch_xbrl_json(cache, xbrl_url, ok)
    IN  IF f.raised
        THEN ToolResult(f.cache, f.sent, LoadOf(f), Msg("FetchFailed", <<>>))
        ELSE ToolResult(f.cache, f.sent, LoadOf(f),
                        Ok(SnapshotLoop(f.data, Requests(metrics), <<>>)))

\* preload_xbrl_summary: the summary, or the message for whatever was raised
preload_xbrl_summary(scache, jcache, xbrl_url, ok) ==
    LET c == _cached_xbrl_summary(scache, jcache, xbrl_url, ok)
    IN  [scache |-> c.scache, cache |-> c.jcache, sent |-> c.sent,
         load |-> c.load,
         ret |-> IF c.raised THEN Msg("FetchFailed", <<>>) ELSE Ok(c.text)]

-----------------------------------------------------------------------------
(* The references and documents of a run *)

UrlA == <<"a", ".", "x", "m", "l">>
UrlB == <<"b", ".", "x", "m", "l">>

\* a.xml, and the same document in other case, with a query string, with a
\* fragment
RefA == UrlA
RefACase == <<"A", ".", "X", "M", "L">>
RefAQuery == <<"a", ".", "x", "m", "l", "?", "b">>
RefAFrag == <<"a", ".", "x", "m", "l", "#", "b">>
RefB == UrlB

CacheRefs == {RefA, RefACase, RefAQuery, RefB}
TagRefs == {RefACase}

Doc1 == <<[name |-> "BalanceSheets", facts |-> [t \in {"Assets"} |-> <<15>>]]>>
Doc2 == <<[name |-> "StatementsOfOperations", facts |-> [t \in {"Revenues"} |-> <<27>>]],
          [name |-> "BalanceSheets", facts |-> [t \in {"Assets"} |-> None]]>>

\* the section a caller may hint at or ask for: a section name, or none ("")
Hints == SectionNames \cup {""}

\* the lists of tags asked of one section
TagLists == {<<>>} \cup { <<t>> : t \in Tags }

\* the metrics argument of get_financial_snapshot: a dict, so no section twice
MetricsInputs ==
    {<<>>}
    \cup { <<[section |-> n, tags |-> ts]>> : n \in SectionNames, ts \in TagLists }
    \cup { m \in [section : SectionNames, tags : TagLists]
                 \X [section : SectionNames, tags : TagLists] :
               m[1].section # m[2].section }

NoCall ==
    [op |-> "none", ref |-> <<>>, tag |-> "", section |-> "", metrics |-> <<>>,
     load |-> "none", ret |-> Ok(<<>>)]

IdleT ==
    /\ pc = [t \in {1, 2} |-> "idle"]
    /\ arg = [t \in {1, 2} |-> <<>>]
    /\ got = [t \in {1, 2} |-> <<>>]
    /\ started = [t \in {1, 2} |-> 0]

IdleC ==
    /\ refA = [base |-> <<>>, query |-> <<>>, frag |-> <<>>]
    /\ refB = [base |-> <<>>, query |-> <<>>, frag |-> <<>>]
    /\ keyA = <<>>
    /\ keyB = <<>>
    /\ keyAA = <<>>

IdleH ==
    /\ batch = <<>>
    /\ nameCache = <<>>
    /\ nameCalls = <<>>
    /\ hLast = <<>>

IdleI ==
    /\ trades = <<>>
    /\ tLast = <<>>

IdleX ==
    /\ remote = <<>>
    /\ jsonCache = <<>>
    /\ summaryCache = <<>>
    /\ nFetch = <<>>
    /\ nOk = <<>>
    /\ last = NoCall

\* the process starts with empty caches and nothing requested
InitX(docsA, docsB) ==
    /\ remote \in {r \in [{UrlA, UrlB} -> docsA \cup docsB] :
                      r[UrlA] \in docsA /\ r[UrlB] \in docsB}
    /\ jsonCache = <<>>
    /\ summaryCache = <<>>
    /\ nFetch = [u \in {UrlA, UrlB} |-> 0]
    /\ nOk = [u \in {UrlA, UrlB} |-> 0]
    /\ last = NoCall

-----------------------------------------------------------------------------
(* Tool calls, one action per call *)

Count(sent, u) == Cardinality({i \in 1..Len(sent) : sent[i] = u})

\* the bound on requests lets the call happen (each action binds the result r
\* of its call once, as the only element of a set)
Within(r) == \A i \in 1..Len(r.sent) : nFetch[r.sent[i]] < MaxFetch

\* the request counters after a call that sent r.sent
Requested(r) == [u \in DOMAIN nFetch |-> nFetch[u] + Count(r.sent, u)]
Succeeded(r) ==
    [u \in DOMAIN nOk |->
        nOk[u] + IF r.load = "fetched" THEN Count(r.sent, u) ELSE 0]

\* a direct call of _fetch_xbrl_json
FetchXbrlJson(refs) ==
    \E ref \in refs, ok \in BOOLEAN :
        \E f \in {_fetch_xbrl_json(jsonCache, ref, ok)} :
        \E r \in {ToolResult(f.cache, f.sent, LoadOf(f),
                             IF f.raised THEN Fault("FetchFailed") ELSE Ok(f.data))} :
            /\ Within(r)
            /\ jsonCache' = r.cache
            /\ nFetch' = Requested(r)
            /\ nOk' = Succeeded(r)
            /\ last' = [NoCall EXCEPT !.op = "_fetch_xbrl_json", !.ref = ref,
                                      !.load = r.load, !.ret = r.ret]
            /\ UNCHANGED <<remote, summaryCache, tvars, cvars, hvars, ivars>>

ExtractMetricFromSection(refs) ==
    \E ref \in refs, section \in SectionNames, tag \in Tags, ok \in BOOLEAN :
        \E r \in {extract_metric_from_section(jsonCache, ref, section, tag, ok)} :
            /\ Within(r)
            /\ jsonCache' = r.cache
            /\ nFetch' = Requested(r)
            /\ nOk' = Succeeded(r)
            /\ last' = [NoCall EXCEPT !.op = "extract_metric_from_section",
                                      !.ref = ref, !.section = section, !.tag = tag,
                                      !.load = r.load, !.ret = r.ret]
            /\ UNCHANGED <<remote, summaryCache, tvars, cvars, hvars, ivars>>

GetMetricSmart(refs) ==
    \E ref \in refs, tag \in Tags, section_hint \in Hints, ok \in BOOLEAN :
        \E r \in {get_metric_smart(jsonCache, ref, tag, section_hint, ok)} :
            /\ Within(r)
            /\ jsonCache' = r.cache
            /\ nFetch' = Requested(r)
            /\ nOk' = Succeeded(r)
            /\ last' = [NoCall EXCEPT !.op = "get_metric_smart", !.ref = ref,
                                      !.section = section_hint, !.tag = tag,
                                      !.load = r.load, !.ret = r.ret]
            /\ UNCHANGED <<remote, summaryCache, tvars, cvars, hvars, ivars>>

GetFinancialSnapshot(refs) ==
    \E ref \in refs, metrics \in MetricsInputs, ok \in BOOLEAN :
        \E r \in {get_financial_snapshot(jsonCache, ref, metrics, ok)} :
            /\ Within(r)
            /\ jsonCache' = r.cache
            /\ nFetch' = Requested(r)
            /\ nOk' = Succeeded(r)
            /\ last' = [NoCall EXCEPT !.op = "get_financial_snapshot", !.ref = ref,
                                      !.metrics = metrics,
                                      !.load = r.load, !.ret = r.ret]
            /\ UNCHANGED <<remote, summaryCache, tvars, cvars, hvars, ivars>>

PreloadXbrlSummary(refs) ==
    \E ref \in refs, ok \in BOOLEAN :
        \E r \in {preload_xbrl_summary(summaryCache, jsonCache, ref, ok)} :
            /\ Within(r)
            /\ jsonCache' = r.cache
            /\ summaryCache' = r.scache
            /\ nFetch' = Requested(r)
            /\ nOk' = Succeeded(r)
            /\ last' = [NoCall EXCEPT !.op = "preload_xbrl_summary", !.ref = ref,
                                      !.load = r.load, !.ret = r.ret]
            /\ UNCHANGED <<remote, tvars, cvars, hvars, ivars>>

\* the document cache under one caller: references that share a canonical URL
Init ==
    /\ InitX({Doc1}, {Doc2})
    /\ IdleT /\ IdleC /\ IdleH /\ IdleI

Next ==
    \/ FetchXbrlJson(CacheRefs)
    \/ PreloadXbrlSummary(CacheRefs)
    \/ GetMetricSmart(CacheRefs)

Spec == Init /\ [][Next]_vars

\* the tools over every document, on one reference to it
InitTags ==
    /\ InitX(Documents, {<<>>})
    /\ IdleT /\ IdleC /\ IdleH /\ IdleI

NextTags ==
    \/ ExtractMetricFromSection(TagRefs)
    \/ GetMetricSmart(TagRefs)
    \/ GetFinancialSnapshot(TagRefs)
    \/ PreloadXbrlSummary(TagRefs)

SpecTags == InitTags /\ [][NextTags]_vars

-----------------------------------------------------------------------------
(* Properties of the document cache (Spec) *)

Tools ==
    {"extract_metric_from_section", "get_metric_smart",
     "get_financial_snapshot", "preload_xbrl_summary"}

\* the references that differ from ref only in query string, fragment or case
EquivalentCached(cache, u) ==
    {k \in CacheKeys(cache) : _canonical_xbrl_url(k) = u}

\* C1: once a remote fetch for a canonical URL has succeeded, and nothing has
\* been evicted, a get with any equivalent reference sends no further request,
\* and the equivalent references share one cache entry.
C1_CacheHitGuarantee ==
    [][\A u \in DOMAIN nOk :
          nOk[u] >= 1 =>
              /\ nFetch'[u] = nFetch[u]
              /\ Cardinality(EquivalentCached(jsonCache', u)) <= 1]_vars

\* C3: a get that fails leaves no entry for its reference in either cache, and
\* a get for a reference without an entry sends a new request, whose content it
\* caches and returns when the request succeeds: a failure is never replayed.
C3_FailedFetchNotCached ==
    [][LET r == last'.ref
           u == _canonical_xbrl_url(r)
       IN  /\ last'.load = "failed" =>
                  /\ ~CacheHas(jsonCache', r)
                  /\ ~CacheHas(summaryCache', r)
                  /\ last'.ret.kind # "ok"
           /\ (last'.load # "none" /\ ~CacheHas(jsonCache, r)) =>
                  /\ last'.load \in {"fetched", "failed"}
                  /\ nFetch'[u] = nFetch[u] + 1
                  /\ last'.load = "fetched" =>
                         /\ CacheHas(jsonCache', r)
                         /\ CacheGet(jsonCache', r) = remote[u]
                         /\ last'.op = "_fetch_xbrl_json" =>
                                last'.ret = Ok(remote[u])]_vars

\* C3 witness: the only reference to b.xml was fetched, failed, was fetched
\* again and this time returned the document
C3_Witness ==
    /\ last.op = "_fetch_xbrl_json"
    /\ last.ref = RefB
    /\ last.load = "fetched"
    /\ last.ret = Ok(remote[UrlB])
    /\ nFetch[UrlB] = 2
    /\ nOk[UrlB] = 1

\* C8: once the document of a reference is in the JSON cache (a request for
\* it succeeded), get_summary for that reference sends no request; once its
\* summary is memoized, get_summary returns the memoized string.
C8_SummaryNeverRefetches ==
    [][last'.op = "preload_xbrl_summary" =>
          LET r == last'.ref
          IN  /\ CacheHas(jsonCache, r) =>
                     /\ nFetch' = nFetch
                     /\ last'.ret = Ok(SummaryOf(CacheGet(jsonCache, r)))
              /\ CacheHas(summaryCache, r) =>
                     /\ nFetch' = nFetch
                     /\ last'.load = "none"
                     /\ last'.ret = Ok(CacheGet(summaryCache, r))]_vars

\* C8 witness: a repeated get_summary answered from the memo, one request in all
C8_Witness ==
    /\ last.op = "preload_xbrl_summary"
    /\ last.ref = RefB
    /\ last.load = "none"
    /\ CacheHas(summaryCache, RefB)
    /\ last.ret = Ok(SummaryOf(remote[UrlB]))
    /\ nFetch[UrlB] = 1

-----------------------------------------------------------------------------
(* Properties of tag resolution (SpecTags) *)

\* C2: every tool call returns a result or an explanatory message; no
\* exception leaves a tool.
C2_NoUnhandledFault ==
    last.op \in Tools => last.ret.kind \in {"ok", "msg"}

\* the sections of data, other than section, whose value of tag differs
OthersDiffering(data, section, tag) ==
    {i \in 1..Len(data) :
        /\ data[i].name # section
        /\ tag \in DOMAIN data[i].facts
        /\ data[i].facts[tag] # SectionData(data, section)[tag]}

\* C4: when the tag is in the hinted section and, with a different value, in
\* another section, get_metric_smart returns the hinted section's value.
C4_HintedSectionWins ==
    LET data == remote[UrlA]
        hint == last.section
        tag == last.tag
    IN  ( /\ last.op = "get_metric_smart"
          /\ last.load \in {"hit", "fetched"}
          /\ hint # ""
          /\ HasSection(data, hint)
          /\ tag \in DOMAIN SectionData(data, hint)
          /\ OthersDiffering(data, hint, tag) # {} )
        => /\ last.ret.kind = "ok"
           /\ last.ret.detail.section = hint

\* C4, the part the code keeps: with a hinted value that is not null, the
\* hinted section's value is returned wherever the section is stored.
C4_HintedNonNullWins ==
    LET data == remote[UrlA]
        hint == last.section
        tag == last.tag
    IN  ( /\ last.op = "get_metric_smart"
          /\ last.load \in {"hit", "fetched"}
          /\ hint # ""
          /\ HasSection(data, hint)
          /\ tag \in DOMAIN SectionData(data, hint)
          /\ SectionData(data, hint)[tag] # None
          /\ OthersDiffering(data, hint, tag) # {} )
        => last.ret = Ok(Metric(tag, hint, EndDate, SectionData(data, hint)[tag][1]))

\* the buckets of a snapshot that hold the tag
Buckets(out, tag) == {b \in DOMAIN out : tag \in DOMAIN out[b]}

RequestsOf(metrics) ==
    {Requests(metrics)[i] : i \in 1..Len(Requests(metrics))}

\* C5 as stated: every requested tag appears in exactly one bucket of the
\* snapshot.
C5_EachTagOnce ==
    (last.op = "get_financial_snapshot" /\ last.ret.kind = "ok") =>
        \A q \in RequestsOf(last.metrics) :
            Cardinality(Buckets(last.ret.detail, q.tag)) = 1

\* C5 as amended: every requested (section, tag) pair has its entry, under a
\* section that holds the tag with that section's value, or under the requested
\* section with null when no section holds the tag; the snapshot has no other
\* entry; a tag appears in at most as many buckets as sections it was requested
\* under, so exactly once when requested under one.
C5_EachRequestOnce ==
    (last.op = "get_financial_snapshot" /\ last.ret.kind = "ok") =>
        LET data == remote[UrlA]
            out == last.ret.detail
            reqs == RequestsOf(last.metrics)
            nowhere(t) == \A i \in 1..Len(data) : t \notin DOMAIN data[i].facts
            right(b, t, q) ==
                IF nowhere(t)
                THEN b = q.section /\ out[b][t] = None
                ELSE /\ HasSection(data, b)
                     /\ t \in DOMAIN SectionData(data, b)
                     /\ out[b][t] = SectionData(data, b)[t]
        IN  /\ \A q \in reqs :
                   \E b \in Buckets(out, q.tag) : right(b, q.tag, q)
            /\ \A b \in DOMAIN out : \A t \in DOMAIN out[b] :
                   \E q \in reqs : q.tag = t /\ right(b, t, q)
            /\ \A q \in reqs :
                   /\ Buckets(out, q.tag) # {}
                   /\ Cardinality(Buckets(out, q.tag))
                          <= Cardinality({p.section : p \in {x \in reqs : x.tag = q.tag}})

\* C5 witness: a snapshot of two requests, one filed under a section other
\* than the requested one, the other unresolved and null under its own
C5_Witness ==
    /\ last.op = "get_financial_snapshot"
    /\ last.ret.kind = "ok"
    /\ LET data == remote[UrlA]
           out == last.ret.detail
           reqs == RequestsOf(last.metrics)
       IN  /\ Cardinality(reqs) = 2
           /\ \E q \in reqs :
                  /\ q.section \notin Buckets(out, q.tag)
                  /\ Buckets(out, q.tag) # {}
           /\ \E q \in reqs :
                  /\ FirstSectionWith(data, q.tag) = <<>>
                  /\ Buckets(out, q.tag) = {q.section}
                  /\ out[q.section][q.tag] = None

\* the requests of a snapshot call whose requested section holds the tag
HeldWhereRequested(data, metrics) ==
    { q \in RequestsOf(metrics) :
        /\ HasSection(data, q.section)
        /\ q.tag \in DOMAIN SectionData(data, q.section) }

\* the request's entry is under the requested section, with that section's
\* first-fact value, and under no other section when nothing else asked for
\* the tag
UnderRequested(data, metrics, out, q) ==
    /\ q.section \in Buckets(out, q.tag)
    /\ out[q.section][q.tag] = SectionData(data, q.section)[q.tag]
    /\ (\A p \in RequestsOf(metrics) : p.tag = q.tag => p = q)
           => Buckets(out, q.tag) = {q.section}

\* C12: in get_financial_snapshot, a tag that the requested section holds is
\* recorded under the requested section with that section's first-fact value,
\* also when the value is null; other sections are consulted only when the
\* requested section lacks the tag.
C12_RequestedSectionWins ==
    (last.op = "get_financial_snapshot" /\ last.ret.kind = "ok") =>
        \A q \in HeldWhereRequested(remote[UrlA], last.metrics) :
            UnderRequested(remote[UrlA], last.metrics, last.ret.detail, q)

\* C12, the part the code keeps: the same when the requested section's value
\* is not null.
C12_RequestedNonNullWins ==
    (last.op = "get_financial_snapshot" /\ last.ret.kind = "ok") =>
        \A q \in HeldWhereRequested(remote[UrlA], last.metrics) :
            SectionData(remote[UrlA], q.section)[q.tag] # None
                => UnderRequested(remote[UrlA], last.metrics, last.ret.detail, q)

\* C12: the requested section holds the tag with a null value, an earlier
\* section holds it with a number, and the one request is recorded under the
\* earlier section with the number
C12_NullRequestedScans ==
    /\ last.op = "get_financial_snapshot"
    /\ last.ret.kind = "ok"
    /\ \E q \in HeldWhereRequested(remote[UrlA], last.metrics) :
          LET data == remote[UrlA]
              out == last.ret.detail
              found == FirstSectionWith(data, q.tag)
          IN  /\ RequestsOf(last.metrics) = {q}
              /\ SectionData(data, q.section)[q.tag] = None
              /\ found[1].section # q.section
              /\ found[1].value # None
              /\ Buckets(out, q.tag) = {found[1].section}
              /\ out[found[1].section][q.tag] = found[1].value

-----------------------------------------------------------------------------
(* Canonicalisation as a pure function (SpecCanon) *)

BaseChars == {"a", "A", "b"}
Bases == UNION { [1..n -> BaseChars] : n \in 0..MaxBaseLen }

\* no query string, or one (which may hold a further "?")
Queries == { <<>>, << <<"A", "?">> >> }
\* no fragment, or one (which may hold "?" and "#")
Fragments == { <<>>, << <<"?", "#", "B">> >> }

Components == [base : Bases, query : Queries, frag : Fragments]

\* base[?query][#fragment]
RefOf(c) ==
    c.base
    \o (IF c.query = <<>> THEN <<>> ELSE <<"?">> \o c.query[1])
    \o (IF c.frag = <<>> THEN <<>> ELSE <<"#">> \o c.frag[1])

InitCanon ==
    /\ refA \in Components
    /\ refB \in Components
    /\ keyA = <<>>
    /\ keyB = <<>>
    /\ keyAA = <<>>
    /\ IdleX /\ IdleT /\ IdleH /\ IdleI

CanonicaliseA ==
    /\ keyA = <<>>
    /\ keyA' = <<_canonical_xbrl_url(RefOf(refA))>>
    /\ UNCHANGED <<refA, refB, keyB, keyAA, xvars, tvars, hvars, ivars>>

CanonicaliseB ==
    /\ keyB = <<>>
    /\ keyB' = <<_canonical_xbrl_url(RefOf(refB))>>
    /\ UNCHANGED <<refA, refB, keyA, keyAA, xvars, tvars, hvars, ivars>>

CanonicaliseAgain ==
    /\ keyA # <<>>
    /\ keyAA = <<>>
    /\ keyAA' = <<_canonical_xbrl_url(keyA[1])>>
    /\ UNCHANGED <<refA, refB, keyA, keyB, xvars, tvars, hvars, ivars>>

NextCanon == CanonicaliseA \/ CanonicaliseB \/ CanonicaliseAgain

SpecCanon == InitCanon /\ [][NextCanon]_vars

\* the same letter in either case, or the same character
CaseVariant(c, d) ==
    c = d \/ \E p \in LetterPairs : {c, d} = {p[1], p[2]}

\* two references that differ only in query string, fragment or letter case
DifferOnlyInQueryFragmentCase(c1, c2) ==
    /\ Len(c1.base) = Len(c2.base)
    /\ \A i \in 1..Len(c1.base) : CaseVariant(c1.base[i], c2.base[i])

\* C10: canonicalising a key again gives the same key, and two references that
\* differ only in query string, fragment or letter case have the same key.
C10_CanonicalIdempotentAndStable ==
    /\ keyAA # <<>> => keyAA = keyA
    /\ (keyA # <<>> /\ keyB # <<>> /\ DifferOnlyInQueryFragmentCase(refA, refB))
           => keyA = keyB

\* C10 witness: a reference with a query string and one with a fragment and
\* other case, both canonicalised, the first one twice
C10_Witness ==
    /\ keyA # <<>> /\ keyB # <<>> /\ keyAA # <<>>
    /\ DifferOnlyInQueryFragmentCase(refA, refB)
    /\ refA.base # refB.base
    /\ Len(refA.base) = 2
    /\ refA.query # <<>> /\ refA.frag = <<>>
    /\ refB.query = <<>> /\ refB.frag # <<>>

-----------------------------------------------------------------------------
(* Two concurrent callers of _fetch_xbrl_json (SpecConc).  lru_cache looks the
   key up, calls the function outside any lock on a miss, and stores what it
   returned; the request blocks on the network, where another caller runs. *)

Callers == {1, 2}
ConcRefs == {RefA, RefACase}

InitConc ==
    /\ remote = [u \in {UrlA} |-> Doc1]
    /\ jsonCache = <<>>
    /\ summaryCache = <<>>
    /\ nFetch = [u \in {UrlA} |-> 0]
    /\ nOk = [u \in {UrlA} |-> 0]
    /\ last = NoCall
    /\ IdleT /\ IdleC /\ IdleH /\ IdleI

\* the cache lookup of a call: a hit returns at once, a miss goes on to the body
Call(t) ==
    /\ pc[t] = "idle"
    /\ started[t] < MaxCalls
    /\ \E ref \in ConcRefs :
          /\ started' = [started EXCEPT ![t] = @ + 1]
          /\ IF CacheHas(jsonCache, ref)
             THEN /\ jsonCache' = CacheTouch(jsonCache, ref)
                  /\ UNCHANGED <<pc, arg>>
             ELSE /\ pc' = [pc EXCEPT ![t] = "fetching"]
                  /\ arg' = [arg EXCEPT ![t] = ref]
                  /\ UNCHANGED jsonCache
    /\ UNCHANGED <<remote, summaryCache, nFetch, nOk, last, got, cvars, hvars, ivars>>

\* the body: the request for the canonical URL and its answer
Respond(t) ==
    /\ pc[t] = "fetching"
    /\ \E ok \in BOOLEAN :
          LET url == _canonical_xbrl_url(arg[t])
          IN  /\ nFetch' = [nFetch EXCEPT ![url] = @ + 1]
              /\ IF ok
                 THEN /\ nOk' = [nOk EXCEPT ![url] = @ + 1]
                      /\ got' = [got EXCEPT ![t] = <<remote[url]>>]
                      /\ pc' = [pc EXCEPT ![t] = "storing"]
                      /\ UNCHANGED arg
                 ELSE /\ pc' = [pc EXCEPT ![t] = "idle"]
                      /\ arg' = [arg EXCEPT ![t] = <<>>]
                      /\ UNCHANGED <<nOk, got>>
    /\ UNCHANGED <<remote, jsonCache, summaryCache, last, started, cvars, hvars, ivars>>

\* the result is stored, unless the key was added while the body ran
Store(t) ==
    /\ pc[t] = "storing"
    /\ jsonCache' = IF CacheHas(jsonCache, arg[t]) THEN jsonCache
                    ELSE CachePut(jsonCache, arg[t], got[t][1], XbrlMaxSize)
    /\ pc' = [pc EXCEPT ![t] = "idle"]
    /\ arg' = [arg EXCEPT ![t] = <<>>]
    /\ got' = [got EXCEPT ![t] = <<>>]
    /\ UNCHANGED <<remote, summaryCache, nFetch, nOk, last, started, cvars, hvars, ivars>>

NextConc == \E t \in Callers : Call(t) \/ Respond(t) \/ Store(t)

SpecConc == InitConc /\ [][NextConc]_vars

\* C7, its sequential half: while only one caller has ever called, at most one
\* remote fetch per canonical key succeeds (nothing is evicted).
C7_SequentialAtMostOne ==
    started[2] = 0 => \A u \in DOMAIN nOk : nOk[u] <= 1

\* C7, its concurrent half: both callers have missed the cache on the same
\* reference and both requests have been answered, with no result cached yet
C7_ConcurrentDuplicate ==
    /\ pc[1] = "storing" /\ pc[2] = "storing"
    /\ arg[1] = arg[2]
    /\ ~CacheHas(jsonCache, arg[1])
    /\ nOk[_canonical_xbrl_url(arg[1])] = 2

\* C7 read per reference as passed: one caller fetches each reference at most
\* once successfully
C7_SequentialAtMostOnePerArgument ==
    started[2] = 0 =>
        \A u \in DOMAIN nOk :
            nOk[u] <= Cardinality(EquivalentCached(jsonCache, u))
                      + Cardinality({t \in Callers : pc[t] = "storing"})

-----------------------------------------------------------------------------
(* CIK to entity name (SpecNames).  A CIK and a name are strings; the answer
   of the mapping endpoint is an error, a JSON object or a JSON list. *)

\* cik.zfill(10)
PadWidth == 10

RECURSIVE Zeros(_)
Zeros(n) == IF n <= 0 THEN "" ELSE "0" \o Zeros(n - 1)

\* str.zfill(width): zeros go after a leading sign; never truncates
zfill(str, width) ==
    IF Len(str) >= width THEN str
    ELSE IF Len(str) > 0 /\ SubSeq(str, 1, 1) \in {"+", "-"}
         THEN SubSeq(str, 1, 1) \o Zeros(width - Len(str)) \o SubSeq(str, 2, Len(str))
         ELSE Zeros(width - Len(str)) \o str

\* an element of the answer that is not an object
NotADict == [isDict |-> FALSE, name |-> <<>>]
\* an object whose "name" is n: <<>> when missing or null, else <<string>>
Entity(n) == [isDict |-> TRUE, name |-> n]

RequestFailed == [raises |-> TRUE, isList |-> FALSE, items |-> <<>>]
JsonObject == [raises |-> FALSE, isList |-> FALSE, items |-> <<>>]
JsonList(items) == [raises |-> FALSE, isList |-> TRUE, items |-> items]

NameAnswers ==
    { RequestFailed, JsonObject,
      JsonList(<<>>),
      JsonList(<<NotADict>>),
      JsonList(<<Entity(<<>>)>>),
      JsonList(<<Entity(<<"">>)>>),
      JsonList(<<Entity(<<"Fund">>)>>),
      JsonList(<<Entity(<<"Fund">>), Entity(<<"Other">>)>>),
      JsonList(<<Entity(<<>>), Entity(<<"Other">>)>>) }

\* the try block of resolve_cik_name: the exception it raises ("" for none)
\* and the name it returns (<<>> when it falls through)
LookupName(resp) ==
    IF resp.raises
    THEN [exc |-> "HTTPError", name |-> <<>>]
    ELSE IF resp.isList /\ resp.items = <<>>
    THEN [exc |-> "", name |-> <<>>]
    ELSE IF ~resp.isList
    THEN [exc |-> "", name |-> <<>>]
    ELSE IF ~resp.items[1].isDict
    THEN [exc |-> "AttributeError", name |-> <<>>]
    ELSE IF resp.items[1].name \in {<<>>, <<"">>}
    THEN [exc |-> "", name |-> <<>>]
    ELSE [exc |-> "", name |-> resp.items[1].name]

\* the result of one call: the cache after it, the exception that left it, the
\* value returned, and the padded identifier of the request it sent (if any)
NameResult(cache, raised, ret, query) ==
    [cache |-> cache, raised |-> raised, ret |-> ret, query |-> query]

\* a resolve_cik_name whose fallback is the padded identifier
ResolveReturnsPadded(cache, cik, resp) ==
    IF CacheHas(cache, cik)
    THEN NameResult(CacheTouch(cache, cik), "", CacheGet(cache, cik), <<>>)
    ELSE LET padded == zfill(cik, PadWidth)
             found == LookupName(resp)
             value == IF found.name # <<>> THEN found.name[1] ELSE padded
         IN  NameResult(CachePut(cache, cik, value, NameMaxSize), "", value,
                        <<padded>>)

\* a resolve_cik_name without the except clause
ResolvePropagates(cache, cik, resp) ==
    IF CacheHas(cache, cik)
    THEN NameResult(CacheTouch(cache, cik), "", CacheGet(cache, cik), <<>>)
    ELSE LET padded == zfill(cik, PadWidth)
             found == LookupName(resp)
             value == IF found.name # <<>> THEN found.name[1] ELSE cik
         IN  IF found.exc # ""
             THEN NameResult(cache, found.exc, "", <<padded>>)
             ELSE NameResult(CachePut(cache, cik, value, NameMaxSize), "",
                             value, <<padded>>)

\* a resolve_cik_name that stores names only, as if a failed lookup raised
ResolveForgetsFallback(cache, cik, resp) ==
    IF CacheHas(cache, cik)
    THEN NameResult(CacheTouch(cache, cik), "", CacheGet(cache, cik), <<>>)
    ELSE LET padded == zfill(cik, PadWidth)
             found == LookupName(resp)
         IN  IF found.name = <<>>
             THEN NameResult(cache, "", cik, <<padded>>)
             ELSE NameResult(CachePut(cache, cik, found.name[1], NameMaxSize),
                             "", found.name[1], <<padded>>)

\* resolve_cik_name behind @lru_cache(maxsize=2048): every exception of the
\* lookup is caught, so every miss returns and is stored
resolve_cik_name(cache, cik, resp) ==
    IF CacheHas(cache, cik)
    THEN NameResult(CacheTouch(cache, cik), "", CacheGet(cache, cik), <<>>)
    ELSE LET padded == zfill(cik, PadWidth)
             found == LookupName(resp)
             value == IF found.name # <<>> THEN found.name[1] ELSE cik
         IN  NameResult(CachePut(cache, cik, value, NameMaxSize), "", value,
                        <<padded>>)

\* f"CIK {cik} -> {name}" (the source writes the arrow as one character)
map_cik_to_name(cache, cik, resp) ==
    LET r == resolve_cik_name(cache, cik, resp)
    IN  IF r.raised # "" THEN r
        ELSE [r EXCEPT !.ret = "CIK " \o cik \o " -> " \o r.ret]

Ciks == {"924171", "0000924171", "-7"}

NoLookup ==
    [op |-> "none", cik |-> "", resp |-> RequestFailed, hit |-> FALSE,
     raised |-> "", ret |-> "", query |-> <<>>]

\* one more request to the mapping endpoint for each identifier asked about
Asked(calls, queries) ==
    [c \in DOMAIN calls |->
        calls[c] + Cardinality({i \in 1..Len(queries) : queries[i] = c})]

InitNames ==
    /\ batch = <<>>
    /\ nameCache = <<>>
    /\ nameCalls = [c \in Ciks |-> 0]
    /\ hLast = NoLookup
    /\ IdleX /\ IdleT /\ IdleC /\ IdleI

ResolveCikName ==
    \E cik \in Ciks, resp \in NameAnswers :
      \E r \in {resolve_cik_name(nameCache, cik, resp)} :
        /\ nameCache' = r.cache
        /\ nameCalls' = Asked(nameCalls, IF r.query = <<>> THEN <<>> ELSE <<cik>>)
        /\ hLast' = [op |-> "resolve_cik_name", cik |-> cik, resp |-> resp,
                     hit |-> CacheHas(nameCache, cik), raised |-> r.raised,
                     ret |-> r.ret, query |-> r.query]
        /\ UNCHANGED <<batch, xvars, tvars, cvars, ivars>>

MapCikToName ==
    \E cik \in Ciks, resp \in NameAnswers :
      \E r \in {map_cik_to_name(nameCache, cik, resp)} :
        /\ nameCache' = r.cache
        /\ nameCalls' = Asked(nameCalls, IF r.query = <<>> THEN <<>> ELSE <<cik>>)
        /\ hLast' = [op |-> "map_cik_to_name", cik |-> cik, resp |-> resp,
                     hit |-> CacheHas(nameCache, cik), raised |-> r.raised,
                     ret |-> r.ret, query |-> r.query]
        /\ UNCHANGED <<batch, xvars, tvars, cvars, ivars>>

NextNames == ResolveCikName \/ MapCikToName

SpecNames == InitNames /\ [][NextNames]_vars

\* the answer is a non-empty list whose first element has a non-empty name
Named(resp) ==
    /\ ~resp.raises
    /\ resp.isList
    /\ Len(resp.items) >= 1
    /\ resp.items[1].isDict
    /\ resp.items[1].name \notin {<<>>, <<"">>}

\* the identifier with zeros in front (after a sign) up to ten characters
ZeroPadded(cik) ==
    LET missing == IF Len(cik) < 10 THEN 10 - Len(cik) ELSE 0
        signed == Len(cik) > 0 /\ SubSeq(cik, 1, 1) \in {"+", "-"}
        sign == IF signed THEN SubSeq(cik, 1, 1) ELSE ""
        rest == IF signed THEN SubSeq(cik, 2, Len(cik)) ELSE cik
    IN  sign \o Zeros(missing) \o rest

\* C9: resolve_cik_name never raises; a lookup that goes to the endpoint asks
\* for the identifier zero-padded to 10 digits and returns the first result's
\* name when it is present and truthy, else the identifier exactly as given.
C9_ResolveNeverFails ==
    hLast.op \in {"resolve_cik_name", "map_cik_to_name"} =>
        LET cik == hLast.cik
            name == IF hLast.hit THEN CacheGet(nameCache, cik)
                    ELSE IF Named(hLast.resp) THEN hLast.resp.items[1].name[1]
                    ELSE cik
        IN  /\ hLast.raised = ""
            /\ hLast.query = IF hLast.hit THEN <<>> ELSE <<ZeroPadded(cik)>>
            /\ hLast.ret = IF hLast.op = "resolve_cik_name" THEN name
                           ELSE "CIK " \o cik \o " -> " \o name

\* C9 witness: a short identifier whose lookup failed in the request and came
\* back as given, not padded
C9_Witness ==
    /\ hLast.op = "resolve_cik_name"
    /\ ~hLast.hit
    /\ hLast.resp.raises
    /\ hLast.cik = "924171"
    /\ hLast.query = <<"0000924171">>
    /\ hLast.ret = "924171"

\* C13: once resolve_cik_name has returned for an identifier, a resolved name
\* or the identifier itself after a failed lookup, that value is stored, and
\* with no eviction every later call with the identifier returns it and sends
\* no request: a failed lookup is not retried.
C13_FallbackMemoized ==
    [][ \A c \in DOMAIN nameCalls :
          /\ nameCalls[c] >= 1 => CacheHas(nameCache, c)
          /\ (hLast'.op = "resolve_cik_name" /\ hLast'.cik = c)
                => /\ CacheHas(nameCache', c)
                   /\ CacheGet(nameCache', c) = hLast'.ret
          /\ CacheHas(nameCache, c)
                => /\ nameCalls'[c] = nameCalls[c]
                   /\ CacheHas(nameCache', c)
                   /\ CacheGet(nameCache', c) = CacheGet(nameCache, c)
                   /\ (hLast'.op = "resolve_cik_name" /\ hLast'.cik = c)
                         => hLast'.ret = CacheGet(nameCache, c) ]_vars

\* C13 witness: the one lookup for an identifier failed and gave the
\* identifier back; a later call, when the endpoint would answer with a name,
\* is a hit that returns the identifier again
C13_Witness ==
    /\ hLast.op = "resolve_cik_name"
    /\ hLast.cik = "924171"
    /\ hLast.hit
    /\ Named(hLast.resp)
    /\ hLast.query = <<>>
    /\ hLast.ret = "924171"
    /\ nameCalls["924171"] = 1

-----------------------------------------------------------------------------
(* 13F holders (SpecHold).  batch is what the holdings endpoint holds for the
   ticker, newest filing first. *)

\* str.upper() on one character
UpperChar(c) ==
    IF \E p \in LetterPairs : p[1] = c
    THEN (CHOOSE p \in LetterPairs : p[1] = c)[2]
    ELSE c

\* str.upper()
RECURSIVE Upper(_)
Upper(str) ==
    IF Len(str) = 0 THEN ""
    ELSE UpperChar(SubSeq(str, 1, 1)) \o Upper(SubSeq(str, 2, Len(str)))

\* a holding line-item; shares and value are <<>> when the field is missing
Holding(ticker, shares, value) ==
    [ticker |-> ticker, shares |-> shares, value |-> value]

HoldingLists ==
    { <<>>,
      <<Holding("AB", <<5>>, <<30>>)>>,
      <<Holding("AB", <<5>>, <<10>>), Holding("AB", <<3>>, <<10>>)>>,
      <<Holding("ML", <<7>>, <<20>>), Holding("AB", <<>>, <<>>)>> }

HoldCiks == {"7", "42"}
Periods == {"Q1", "Q2"}

Filings == [cik : HoldCiks, period : Periods, holdings : HoldingLists]

Batches == UNION { [1..n -> Filings] : n \in 0..MaxFilings }

\* h.get("shrsOrPrnAmt", {}).get("sshPrnamt", 0)
SharesOf(h) == IF h.shares = <<>> THEN 0 ELSE h.shares[1]
\* h.get("value", 0)
ValueOf(h) == IF h.value = <<>> THEN 0 ELSE h.value[1]

\* a filter that keeps the filings of every period
AnyQuarter(filings, target_period) == filings

\* same_q: the filings whose periodOfReport equals the target period
SameQuarter(filings, target_period) ==
    SelectSeq(filings, LAMBDA f : f.period = target_period)

\* aggregated[name] += (shares, value), a new name going to the end
AddHolding(aggregated, name, h) ==
    IF \E i \in 1..Len(aggregated) : aggregated[i].name = name
    THEN [i \in 1..Len(aggregated) |->
            IF aggregated[i].name = name
            THEN [name |-> name,
                  shares |-> aggregated[i].shares + SharesOf(h),
                  value |-> aggregated[i].value + ValueOf(h)]
            ELSE aggregated[i]]
    ELSE Append(aggregated,
                [name |-> name, shares |-> SharesOf(h), value |-> ValueOf(h)])

\* the inner loop: the line-items of one filing for the upper-cased ticker
RECURSIVE AddHoldings(_, _, _, _)
AddHoldings(aggregated, name, holdings, wanted) ==
    IF holdings = <<>> THEN aggregated
    ELSE AddHoldings(IF Head(holdings).ticker # wanted THEN aggregated
                     ELSE AddHolding(aggregated, name, Head(holdings)),
                     name, Tail(holdings), wanted)

\* the outer loop: each filing's CIK is resolved, then its line-items are added
RECURSIVE AggregateFilings(_, _, _, _)
AggregateFilings(st, same_q, wanted, resp) ==
    IF same_q = <<>> THEN st
    ELSE LET f == Head(same_q)
             r == resolve_cik_name(st.cache, f.cik, resp[f.cik])
         IN  AggregateFilings(
                 [cache |-> r.cache,
                  queried |-> IF r.query = <<>> THEN st.queried
                              ELSE Append(st.queried, f.cik),
                  aggregated |-> AddHoldings(st.aggregated, r.ret, f.holdings,
                                             wanted)],
                 Tail(same_q), wanted, resp)

\* sorted(..., key=value, reverse=True): stable, equal values keep their order
RECURSIVE SortedByValue(_)
SortedByValue(rows) ==
    IF rows = <<>> THEN <<>>
    ELSE LET top == CHOOSE i \in 1..Len(rows) :
                       /\ \A j \in 1..Len(rows) : rows[j].value <= rows[i].value
                       /\ \A j \in 1..(i - 1) : rows[j].value < rows[i].value
         IN  <<rows[top]>>
             \o SortedByValue(SubSeq(rows, 1, top - 1)
                              \o SubSeq(rows, top + 1, Len(rows)))

\* rows[:top_n]
FirstN(rows, n) == SubSeq(rows, 1, IF n < Len(rows) THEN n ELSE Len(rows))

HoldersResult(cache, queried, ret, aggregated) ==
    [cache |-> cache, queried |-> queried, ret |-> ret,
     aggregated |-> aggregated]

\* get_institutional_holders; quarter "" is a quarter that was not given.  The
\* text returned is kept as the message and the numbers it is written from.
get_institutional_holders(cache, ticker, quarter, top_n, ok, filings, resp) ==
    IF ~ok
    THEN HoldersResult(cache, <<>>, [kind |-> "Error contacting"], <<>>)
    ELSE IF filings = <<>>
    THEN HoldersResult(cache, <<>>,
                       [kind |-> "No 13F holdings found", ticker |-> ticker],
                       <<>>)
    ELSE LET target_period == IF quarter # "" THEN quarter
                              ELSE filings[1].period
             same_q == SameQuarter(filings, target_period)
             st == AggregateFilings(
                       [cache |-> cache, queried |-> <<>>, aggregated |-> <<>>],
                       same_q, Upper(ticker), resp)
         IN  IF st.aggregated = <<>>
             THEN HoldersResult(st.cache, st.queried,
                                [kind |-> "not held", ticker |-> ticker,
                                 period |-> target_period],
                                <<>>)
             ELSE HoldersResult(st.cache, st.queried,
                                [kind |-> "Institutional holders",
                                 ticker |-> Upper(ticker),
                                 period |-> target_period,
                                 top_n |-> top_n,
                                 rows |-> FirstN(SortedByValue(st.aggregated),
                                                 top_n)],
                                st.aggregated)

\* what the mapping endpoint answers for each CIK during one call
HoldAnswers == [HoldCiks -> {RequestFailed, JsonList(<<Entity(<<"Fund">>)>>)}]

NoHolders ==
    [op |-> "none", ticker |-> "", quarter |-> "", ok |-> FALSE,
     resp |-> [c \in HoldCiks |-> RequestFailed],
     ret |-> [kind |-> "none"], aggregated |-> <<>>]

InitHold ==
    /\ batch \in Batches
    /\ nameCache = <<>>
    /\ nameCalls = [c \in HoldCiks |-> 0]
    /\ hLast = NoHolders
    /\ IdleX /\ IdleT /\ IdleC /\ IdleI

GetInstitutionalHolders ==
    \E ticker \in {"ab"}, quarter \in Periods \cup {""},
       top_n \in {1, 20}, ok \in BOOLEAN, resp \in HoldAnswers :
      \E r \in {get_institutional_holders(nameCache, ticker, quarter, top_n,
                                          ok, batch, resp)} :
        /\ nameCache' = r.cache
        /\ nameCalls' = Asked(nameCalls, r.queried)
        /\ hLast' = [op |-> "get_institutional_holders", ticker |-> ticker,
                     quarter |-> quarter, ok |-> ok, resp |-> resp,
                     ret |-> r.ret, aggregated |-> r.aggregated]
        /\ UNCHANGED <<batch, xvars, tvars, cvars, ivars>>

NextHold == GetInstitutionalHolders

SpecHold == InitHold /\ [][NextHold]_vars

\* the sum of f over a finite set
RECURSIVE SumOver(_, _)
SumOver(S, f) ==
    IF S = {} THEN 0
    ELSE LET x == CHOOSE y \in S : TRUE
         IN  f[x] + SumOver(S \ {x}, f)

\* the display name a CIK resolves to, given the cache before the call and
\* the endpoint's answers during it
DisplayName(cache, resp, cik) ==
    IF CacheHas(cache, cik) THEN CacheGet(cache, cik)
    ELSE IF Named(resp[cik]) THEN resp[cik].items[1].name[1]
    ELSE cik

\* the line-items that count for a display name: those for the ticker, in
\* records of the target period, of a CIK that resolves to the name
LineItems(cache, call, target, name) ==
    { p \in (1..Len(batch)) \X (1..2) :
        /\ p[2] <= Len(batch[p[1]].holdings)
        /\ batch[p[1]].period = target
        /\ DisplayName(cache, call.resp, batch[p[1]].cik) = name
        /\ batch[p[1]].holdings[p[2]].ticker = Upper(call.ticker) }

TotalsAreSums(cache, call) ==
    LET target == IF call.quarter # "" THEN call.quarter ELSE batch[1].period
        names == {DisplayName(cache, call.resp, c) : c \in HoldCiks}
                 \cup {call.aggregated[i].name : i \in 1..Len(call.aggregated)}
    IN  \A name \in names :
          LET items == LineItems(cache, call, target, name)
              shares == [p \in items |-> SharesOf(batch[p[1]].holdings[p[2]])]
              value == [p \in items |-> ValueOf(batch[p[1]].holdings[p[2]])]
              rows == {i \in 1..Len(call.aggregated) :
                          call.aggregated[i].name = name}
          IN  IF items = {} THEN rows = {}
              ELSE /\ Cardinality(rows) = 1
                   /\ \A i \in rows :
                        /\ call.aggregated[i].shares = SumOver(items, shares)
                        /\ call.aggregated[i].value = SumOver(items, value)

\* C6: after a call that got a non-empty batch, each display name's share and
\* value totals are the sums over the line-items for the ticker in records of
\* the target period (the quarter asked for, else the first record's period);
\* records of other periods add to no total.
C6_AggregationCorrect ==
    [][ (hLast'.op = "get_institutional_holders" /\ hLast'.ok /\ batch # <<>>)
            => TotalsAreSums(nameCache, hLast') ]_vars

\* C6 witness: no quarter asked for; the first record has two line-items for
\* the ticker, the second one is of another period and holds the ticker too;
\* the one total is the sum of the first record's items
C6_Witness ==
    /\ hLast.op = "get_institutional_holders"
    /\ hLast.quarter = ""
    /\ hLast.ret.kind = "Institutional holders"
    /\ Len(batch) = 2
    /\ batch[1].period # batch[2].period
    /\ Len(batch[1].holdings) = 2
    /\ \A j \in 1..2 : batch[1].holdings[j].ticker = Upper(hLast.ticker)
    /\ \E j \in 1..Len(batch[2].holdings) :
          /\ batch[2].holdings[j].ticker = Upper(hLast.ticker)
          /\ SharesOf(batch[2].holdings[j]) > 0
    /\ Len(hLast.aggregated) = 1
    /\ hLast.aggregated[1].shares =
          SharesOf(batch[1].holdings[1]) + SharesOf(batch[1].holdings[2])
    /\ hLast.aggregated[1].value =
          ValueOf(batch[1].holdings[1]) + ValueOf(batch[1].holdings[2])

-----------------------------------------------------------------------------
(* Insider trades (SpecTrades).  trades is what the insider-trading endpoint
   holds for the ticker.  A field that is missing or null is <<>>, as both
   read as None through dict.get. *)

\* Python truthiness of an optional number: None and 0 are falsy
Truthy(v) == v # None /\ v[1] # 0

\* a or b
PyOr(a, b) == IF Truthy(a) THEN a ELSE b

\* transactionShares.value and transactionPrice.value
PrimaryValues == {None, <<0>>, <<100>>}
\* amounts.shares and amounts.pricePerShare
AlternateValues == {None, <<0>>, <<7>>}

\* one non-derivative transaction; code is <<>> when coding.code is missing
Transactions ==
    [code : {None, <<"P">>},
     transactionShares : PrimaryValues, amountsShares : AlternateValues,
     transactionPrice : PrimaryValues, amountsPrice : AlternateValues]

\* a later transaction of the same entry, which is never read
LaterTransaction ==
    [code |-> <<"S">>,
     transactionShares |-> <<55>>, amountsShares |-> <<55>>,
     transactionPrice |-> <<55>>, amountsPrice |-> <<55>>]

\* an entry of the answer: its owner's name (<<>> when missing) and its
\* nonDerivativeTable.transactions (<<>> when missing or empty)
Entries ==
    [owner : {None, <<"Ann">>},
     transactions : {<<>>} \cup {<<tx>> : tx \in Transactions}
                    \cup {<<tx, LaterTransaction>> : tx \in Transactions}]

TradeBatches == UNION { [1..n -> Entries] : n \in 0..MaxEntries }

\* _first_transaction: (code, shares, price) of the first transaction
_first_transaction(entry) ==
    LET nd == entry.transactions
    IN  IF nd = <<>>
        THEN [code |-> "?", shares |-> None, price |-> None]
        ELSE LET tx == nd[1]
             IN  [code |-> IF tx.code = None THEN "?" ELSE tx.code[1],
                  shares |-> PyOr(tx.transactionShares, tx.amountsShares),
                  price |-> PyOr(tx.transactionPrice, tx.amountsPrice)]

\* one line of the answer, kept as the values it is written from; a share
\* count or price of None is written "?"
TradeLine(entry) ==
    LET first == _first_transaction(entry)
    IN  [owner |-> IF entry.owner = None THEN "-" ELSE entry.owner[1],
         code |-> first.code,
         share_txt |-> IF first.shares # None THEN first.shares ELSE <<"?">>,
         price_txt |-> IF first.price # None THEN first.price ELSE <<"?">>,
         first |-> first]

\* get_insider_trades
get_insider_trades(ticker, ok, txs) ==
    IF ~ok
    THEN [kind |-> "Error contacting", lines |-> <<>>]
    ELSE IF txs = <<>>
    THEN [kind |-> "No insider trades found", lines |-> <<>>]
    ELSE [kind |-> "Top", lines |-> [i \in 1..Len(txs) |-> TradeLine(txs[i])]]

NoTrades == [op |-> "none", ok |-> FALSE, ret |-> [kind |-> "none", lines |-> <<>>]]

InitTrades ==
    /\ trades \in TradeBatches
    /\ tLast = NoTrades
    /\ IdleX /\ IdleT /\ IdleC /\ IdleH

GetInsiderTrades ==
    \E ok \in BOOLEAN :
        /\ tLast' = [op |-> "get_insider_trades", ok |-> ok,
                     ret |-> get_insider_trades("ab", ok, trades)]
        /\ UNCHANGED <<trades, xvars, tvars, cvars, hvars>>

NextTrades == GetInsiderTrades

SpecTrades == InitTrades /\ [][NextTrades]_vars

\* the entries of the answer whose line has been written
Written == IF tLast.ret.kind = "Top" THEN 1..Len(trades) ELSE {}

\* C11: for the first transaction of an entry, the share count and the price
\* are the primary field's value whenever it is not null, 0 included, and the
\* alternate field's value only when the primary is null or absent; an entry
\* without transactions yields ("?", null, null).
C11_FirstNonNullWins ==
    \A i \in Written :
        LET first == tLast.ret.lines[i].first
            nd == trades[i].transactions
        IN  IF nd = <<>>
            THEN first = [code |-> "?", shares |-> None, price |-> None]
            ELSE /\ first.shares =
                        IF nd[1].transactionShares # None
                        THEN nd[1].transactionShares ELSE nd[1].amountsShares
                 /\ first.price =
                        IF nd[1].transactionPrice # None
                        THEN nd[1].transactionPrice ELSE nd[1].amountsPrice

\* C11, the part the code keeps: a primary value that is not null and not 0
\* wins, a null or absent primary gives the alternate, and an entry without
\* transactions yields ("?", null, null).
C11_FirstTruthyWins ==
    \A i \in Written :
        LET first == tLast.ret.lines[i].first
            nd == trades[i].transactions
        IN  IF nd = <<>>
            THEN first = [code |-> "?", shares |-> None, price |-> None]
            ELSE /\ nd[1].transactionShares \notin {None, <<0>>}
                    => first.shares = nd[1].transactionShares
                 /\ nd[1].transactionShares = None
                    => first.shares = nd[1].amountsShares
                 /\ nd[1].transactionPrice \notin {None, <<0>>}
                    => first.price = nd[1].transactionPrice
                 /\ nd[1].transactionPrice = None
                    => first.price = nd[1].amountsPrice

\* C11: a primary price of 0 with an alternate price of 7 is reported as 7,
\* and a primary share count of 0 without an alternate as "?"
C11_ZeroPrimaryLost ==
    \E i \in Written :
        LET nd == trades[i].transactions
            line == tLast.ret.lines[i]
        IN  /\ nd # <<>>
            /\ nd[1].transactionPrice = <<0>> /\ nd[1].amountsPrice = <<7>>
            /\ line.price_txt = <<7>>
            /\ nd[1].transactionShares = <<0>> /\ nd[1].amountsShares = None
            /\ line.share_txt = <<"?">>

=============================================================================
